---------------------------- MODULE Spec2Model ----------------------------
(***************************************************************************)
(* Model of the vendor master-data consolidation tool.                     *)
(*                                                                         *)
(*   data_consolidation.py              main(): standardise, consolidate,  *)
(*                                      clean, deduplicate, report         *)
(*   field_mapping_with_manual_review.py  clean_csv, analyse_cleaned_data, *)
(*                                      create_mapping_table               *)
(*                                                                         *)
(* A DataFrame is a record [columns, index, rows]: the column labels (a    *)
(* sequence, duplicates possible), the row labels, and the rows, each a    *)
(* sequence of cells positionally aligned with columns.  A cell is NaN     *)
(* (pandas' missing value) or a text, a sequence of code points.  Column   *)
(* labels are strings.  Cells are texts throughout: the numeric dtype      *)
(* inference of pd.read_csv is not modelled.                               *)
(***************************************************************************)
EXTENDS Integers, Sequences, FiniteSets, TLC

VARIABLES
    \* data_consolidation.py
    mapping_table,        \* main: mapping_table (rows of the mapping CSV)
    data_dict,            \* main: data_dict, one DataFrame per source, in dict order
    pc,                   \* position in main / __main__
    k,                    \* consolidate_data: 1-based position of the for loop
    standardised,         \* consolidate_data: local `standardised`
    standardised_data,    \* consolidate_data: list `standardised_data`
    consolidated,         \* main: `consolidated` (mutated in place by clean_columns)
    consolidated_cleaned, \* main: `consolidated_cleaned`
    uncleaned_file,       \* ./consolidated_data/uncleaned_consolidated_data.csv
    cleaned_file,         \* ./consolidated_data/cleaned_consolidated_data.csv
    report_file,          \* ./consolidated_data/duplicate_records.csv
    duplicate_records,    \* __main__: `duplicate_records`
    diag,                 \* everything printed, in order, as <<function, message>>
    \* field_mapping_with_manual_review.py
    mpc,                  \* position in __main__
    standard_fields,      \* the alias enumeration, a sequence of <<key, aliases>>
    raw_frames,           \* the parsed raw tables, in os.listdir order
    f,                    \* 1-based position of the for loop over the files
    cleaned_dataframes,   \* dict cleaned_dataframes, in insertion order
    cleaned_files,        \* the files written to ./cleaned_data, in order
    column_analysis,      \* analyse_cleaned_data's first result
    draft_mapping,        \* create_mapping_table's result, `mapping_table`
    mapping_file          \* ./mapping/mapping_table.csv

cvars == <<mapping_table, data_dict, pc, k, standardised, standardised_data,
           consolidated, consolidated_cleaned, uncleaned_file, cleaned_file,
           report_file, duplicate_records, diag>>
mvars == <<mpc, standard_fields, raw_frames, f, cleaned_dataframes,
           cleaned_files, column_analysis, draft_mapping, mapping_file>>
vars == <<cvars, mvars>>

----------------------------------------------------------------------------
(* Bounds of the model *)

\* how many of the sources of data_files_paths take part in a run
NSources == 2
\* most rows of the first source dataset
MaxRows == 3
\* most columns of a column list handed to ensure_unique_columns on its own
MaxCols == 3
\* most rows of a parsed raw table
MaxRawRows == 3

----------------------------------------------------------------------------
(* Values *)

\* pandas' missing value; no text, since code points are naturals
NaN == <<-1>>

notnull(value) == value # NaN

Range(s) == {s[i] : i \in DOMAIN s}

IsUnique(s) == \A i, j \in DOMAIN s : s[i] = s[j] => i = j

\* position of the first occurrence of x in s
IndexOf(s, x) == CHOOSE i \in DOMAIN s : s[i] = x /\ \A j \in 1..(i - 1) : s[j] # x

\* list.count
RECURSIVE Count(_, _)
Count(s, x) ==
    IF s = <<>> THEN 0
    ELSE (IF Head(s) = x THEN 1 ELSE 0) + Count(Tail(s), x)

RECURSIVE Flatten(_)
Flatten(ss) == IF ss = <<>> THEN <<>> ELSE Head(ss) \o Flatten(Tail(ss))

\* str.isalnum on one ASCII code point
IsAlnum(c) == (48 <= c /\ c <= 57) \/ (65 <= c /\ c <= 90) \/ (97 <= c /\ c <= 122)

\* str.isspace on one ASCII code point: what str.split() splits on
IsSpace(c) == c = 32 \/ (9 <= c /\ c <= 13) \/ (28 <= c /\ c <= 31)

NotSpace(c) == ~IsSpace(c)

\* Python's < on str: lexicographic by code point
RECURSIVE TextLess(_, _)
TextLess(a, b) ==
    IF b = <<>> THEN FALSE
    ELSE IF a = <<>> THEN TRUE
    ELSE IF Head(a) # Head(b) THEN Head(a) < Head(b)
    ELSE TextLess(Tail(a), Tail(b))

EmptyFrame == [columns |-> <<>>, index |-> <<>>, rows |-> <<>>]

NoFile == [exists |-> FALSE, columns |-> <<>>, rows |-> <<>>]

\* df[column] for a label that occurs once
Column(df, column) ==
    [r \in DOMAIN df.rows |-> df.rows[r][IndexOf(df.columns, column)]]

----------------------------------------------------------------------------
(* data_consolidation.py: standardise_data *)

\* mapping_table[mapping_table['Source'] == source_name]
SourceMapping(table, source_name) ==
    SelectSeq(table, LAMBDA e : e.Source = source_name)

\* dict(zip(mapping['Source Field'], mapping['Standard Field'])): its keys
FieldMapKeys(mapping) == {mapping[i].SourceField : i \in DOMAIN mapping}

\* dict(zip(...))[key]: a later entry for the same key replaces an earlier one
FieldMapGet(mapping, key) ==
    LET last == CHOOSE i \in DOMAIN mapping :
                    /\ mapping[i].SourceField = key
                    /\ \A j \in DOMAIN mapping :
                           mapping[j].SourceField = key => j <= i
    IN  mapping[last].StandardField

\* the labels of data.rename(columns=field_map)
RenamedColumns(columns, mapping) ==
    [i \in DOMAIN columns |->
        IF columns[i] \in FieldMapKeys(mapping)
        THEN FieldMapGet(mapping, columns[i])
        ELSE columns[i]]

\* the value standardise_data returns
standardise_data(data, source_name, table) ==
    [data EXCEPT !.columns =
        RenamedColumns(data.columns, SourceMapping(table, source_name))]

\* what standardise_data prints
StandardiseDiag(data, source_name, table) ==
    LET mapping == SourceMapping(table, source_name)
        out == standardise_data(data, source_name, table)
    IN  (IF "vendor_id" \in Range(data.columns)
         THEN <<(<<"standardise_data", "Vendor IDs before standardisation">>)>>
         ELSE <<>>)
        \o (IF \A i \in DOMAIN mapping : mapping[i].StandardField # "vendor_id"
            THEN <<(<<"standardise_data", "WARNING: No vendor_id mapping found">>)>>
            ELSE <<>>)
        \o (IF "vendor_id" \in Range(out.columns)
            THEN <<(<<"standardise_data", "Vendor IDs after standardisation">>)>>
            ELSE <<(<<"standardise_data", "ERROR: vendor_id column missing after standardisation">>)>>)

----------------------------------------------------------------------------
(* data_consolidation.py: ensure_unique_columns *)

\* f"{col}_{i}": i is the zero-based position
Suffixed(col, i) == col \o "_" \o ToString(i)

\* ensure_unique_columns as it would be if only the repetitions of a label,
\* and not its first occurrence, got the suffix
UniqueColumnsExtrasOnly(columns) ==
    [i \in DOMAIN columns |->
        IF Count(SubSeq(columns, 1, i - 1), columns[i]) > 0
        THEN Suffixed(columns[i], i - 1)
        ELSE columns[i]]

\* the labels ensure_unique_columns assigns; the counts are those of the
\* labels before the assignment
UniqueColumns(columns) ==
    [i \in DOMAIN columns |->
        IF Count(columns, columns[i]) > 1
        THEN Suffixed(columns[i], i - 1)
        ELSE columns[i]]

ensure_unique_columns(df) == [df EXCEPT !.columns = UniqueColumns(df.columns)]

----------------------------------------------------------------------------
(* data_consolidation.py: consolidate_data's pd.concat(..., ignore_index=True) *)

\* the labels of the frames in order of first appearance (union_indexes, sort=False)
RECURSIVE UnionColumns(_, _)
UnionColumns(frames, acc) ==
    IF frames = <<>> THEN acc
    ELSE UnionColumns(Tail(frames),
            acc \o SelectSeq(Head(frames).columns,
                        LAMBDA c : c \notin Range(acc)))

AllColumnsEqual(frames) ==
    \A i \in DOMAIN frames : frames[i].columns = frames[1].columns

\* concat reindexes every frame whose labels differ from the combined ones, and
\* Index.get_indexer raises InvalidIndexError on labels that are not unique
ConcatRaises(frames) ==
    /\ ~AllColumnsEqual(frames)
    /\ \E i \in DOMAIN frames : ~IsUnique(frames[i].columns)

ConcatColumns(frames) ==
    IF AllColumnsEqual(frames) THEN frames[1].columns
    ELSE UnionColumns(frames, <<>>)

\* the rows of one frame laid out on the combined labels
Realign(df, columns) ==
    IF df.columns = columns THEN df.rows
    ELSE [r \in DOMAIN df.rows |->
            [j \in DOMAIN columns |->
                IF columns[j] \in Range(df.columns)
                THEN df.rows[r][IndexOf(df.columns, columns[j])]
                ELSE NaN]]

RECURSIVE ConcatRows(_, _)
ConcatRows(frames, columns) ==
    IF frames = <<>> THEN <<>>
    ELSE Realign(Head(frames), columns) \o ConcatRows(Tail(frames), columns)

\* pd.concat(frames, ignore_index=True) when it does not raise
Concat(frames) ==
    LET columns == ConcatColumns(frames)
        rows == ConcatRows(frames, columns)
    IN  [columns |-> columns,
         index |-> [i \in DOMAIN rows |-> i - 1],
         rows |-> rows]

----------------------------------------------------------------------------
(* data_consolidation.py: clean_columns and the cleaning rules *)

remove_special_characters(value) ==
    IF notnull(value) THEN SelectSeq(value, IsAlnum) ELSE value

remove_whitespace(value) ==
    IF notnull(value) THEN SelectSeq(value, NotSpace) ELSE value

\* df[column] = values
SetColumn(df, column, values) ==
    [df EXCEPT !.rows =
        [r \in DOMAIN df.rows |->
            [j \in DOMAIN df.columns |->
                IF j = IndexOf(df.columns, column) THEN values[r]
                ELSE df.rows[r][j]]]]

\* the rule 'vendor_id': remove_special_characters, when the label exists
CleanVendorId(df) ==
    IF "vendor_id" \in Range(df.columns)
    THEN SetColumn(df, "vendor_id",
            [r \in DOMAIN df.rows |->
                remove_special_characters(Column(df, "vendor_id")[r])])
    ELSE df

\* the rule 'vat_number': remove_whitespace, when the label exists
CleanVatNumber(df) ==
    IF "vat_number" \in Range(df.columns)
    THEN SetColumn(df, "vat_number",
            [r \in DOMAIN df.rows |->
                remove_whitespace(Column(df, "vat_number")[r])])
    ELSE df

\* cleaning_rules of main, applied in dict order
clean_columns(df) == CleanVatNumber(CleanVendorId(df))

\* what clean_columns prints
CleanDiag(df) ==
    IF "vendor_id" \in Range(df.columns)
    THEN <<(<<"clean_columns", "Vendor IDs before cleaning">>)>>
         \o (IF \E r \in DOMAIN df.rows : Column(df, "vendor_id")[r] = NaN
             THEN <<(<<"clean_columns", "WARNING: Found blank vendor IDs">>)>>
             ELSE <<>>)
         \o <<(<<"clean_columns", "Vendor IDs after cleaning">>)>>
    ELSE <<>>

----------------------------------------------------------------------------
(* data_consolidation.py: main's drop_duplicates(subset=['vendor_id'], keep='first') *)

\* Series.duplicated(keep='first'): pandas hashes the values, and every NaN is
\* the same key
DuplicatedFirst(values, r) == \E q \in 1..(r - 1) : values[q] = values[r]

\* Series.duplicated(keep=False)
DuplicatedAny(values, r) == \E q \in DOMAIN values : q # r /\ values[q] = values[r]

\* df.iloc[positions]: rows keep their labels
Take(df, positions) ==
    [columns |-> df.columns,
     index |-> [i \in DOMAIN positions |-> df.index[positions[i]]],
     rows |-> [i \in DOMAIN positions |-> df.rows[positions[i]]]]

drop_duplicates_vendor_id(df) ==
    Take(df, SelectSeq([r \in DOMAIN df.rows |-> r],
        LAMBDA r : ~DuplicatedFirst(Column(df, "vendor_id"), r)))

\* lines 119-120 of main
DropIfApplicable(df) ==
    IF "vendor_id" \in Range(df.columns) THEN drop_duplicates_vendor_id(df) ELSE df

----------------------------------------------------------------------------
(* DataFrame.to_csv(index=False) and pd.read_csv *)

\* a missing value is written as the empty field
CsvField(value) == IF value = NaN THEN <<>> ELSE value

\* the empty field is read as a missing value
CsvValue(field) == IF field = <<>> THEN NaN ELSE field

to_csv(df) ==
    [exists |-> TRUE,
     columns |-> df.columns,
     rows |-> [r \in DOMAIN df.rows |->
                [j \in DOMAIN df.columns |-> CsvField(df.rows[r][j])]]]

\* read_csv renames the n-th repetition of a header label to label.n
MangledColumns(columns) ==
    [i \in DOMAIN columns |->
        LET before == Count(SubSeq(columns, 1, i - 1), columns[i])
        IN  IF before = 0 THEN columns[i]
            ELSE columns[i] \o "." \o ToString(before)]

read_csv(file) ==
    [columns |-> MangledColumns(file.columns),
     index |-> [r \in DOMAIN file.rows |-> r - 1],
     rows |-> [r \in DOMAIN file.rows |->
                [j \in DOMAIN file.columns |-> CsvValue(file.rows[r][j])]]]

----------------------------------------------------------------------------
(* data_consolidation.py: the duplicates report of __main__ *)

\* uncleaned[uncleaned.duplicated(subset=['vendor_id'], keep=False)]['vendor_id'].unique()
duplicate_ids(uncleaned) ==
    LET ids == Column(uncleaned, "vendor_id")
    IN  {ids[r] : r \in {q \in DOMAIN ids : DuplicatedAny(ids, q)}}

\* uncleaned[uncleaned['vendor_id'].isin(duplicate_ids)]: isin finds NaN in a
\* list that holds NaN
DuplicateRows(uncleaned) ==
    Take(uncleaned, SelectSeq([r \in DOMAIN uncleaned.rows |-> r],
        LAMBDA r : Column(uncleaned, "vendor_id")[r] \in duplicate_ids(uncleaned)))

RECURSIVE Orderings(_)
Orderings(S) ==
    IF S = {} THEN {<<>>}
    ELSE UNION {{<<x>> \o p : p \in Orderings(S \ {x})} : x \in S}

\* sort_values('vendor_id'): ascending, missing values last in their original
\* order (nargsort); the default quicksort may order equal keys either way
IsSortOrder(values, order) ==
    \A a, b \in DOMAIN order :
        a < b =>
            LET x == values[order[a]]
                y == values[order[b]]
            IN  /\ (x = NaN => y = NaN)
                /\ (x = NaN /\ y = NaN => order[a] < order[b])
                /\ (x # NaN /\ y # NaN => ~TextLess(y, x))

SortOrders(df) ==
    {order \in Orderings(DOMAIN df.rows) :
        IsSortOrder(Column(df, "vendor_id"), order)}

\* the summary lines 159-162 print
Summary(uncleaned, records) ==
    [total_rows |-> Len(uncleaned.rows),
     unique_ids |-> Cardinality(Range(Column(uncleaned, "vendor_id")) \ {NaN}),
     duplicate_ids |-> Cardinality(duplicate_ids(uncleaned)),
     duplicate_rows |-> Len(records.rows)]

----------------------------------------------------------------------------
(* field_mapping_with_manual_review.py: clean_csv *)

AllNaN(row) == \A j \in DOMAIN row : row[j] = NaN

\* df.dropna(how='all')
dropna_all(df) ==
    Take(df, SelectSeq([r \in DOMAIN df.rows |-> r],
        LAMBDA r : ~AllNaN(df.rows[r])))

\* forward fill of the rows below a row of carried values
RECURSIVE FillDown(_, _)
FillDown(rows, carried) ==
    IF rows = <<>> THEN <<>>
    ELSE LET filled == [j \in DOMAIN Head(rows) |->
                            IF Head(rows)[j] = NaN THEN carried[j]
                            ELSE Head(rows)[j]]
         IN  <<filled>> \o FillDown(Tail(rows), filled)

\* df.fillna(method='ffill')
ffill(df) ==
    [df EXCEPT !.rows = FillDown(df.rows, [j \in DOMAIN df.columns |-> NaN])]

\* df.drop_duplicates(): all columns, keep='first'; a NaN equals a NaN
drop_duplicates(df) ==
    Take(df, SelectSeq([r \in DOMAIN df.rows |-> r],
        LAMBDA r : ~DuplicatedFirst(df.rows, r)))

\* clean_csv as it would be if the duplicate rows were dropped before the fill
clean_csv_dedup_first(df) == ffill(drop_duplicates(dropna_all(df)))

clean_csv(df) == drop_duplicates(ffill(dropna_all(df)))

----------------------------------------------------------------------------
(* field_mapping_with_manual_review.py: analyse_cleaned_data, create_mapping_table *)

\* df.head(1).to_dict('records')[0] if not df.empty else {}: the first row by
\* position, or nothing
SampleData(df) == IF df.rows = <<>> THEN <<>> ELSE df.rows[1]

\* column_analysis[file_name]
Analysis(entry) ==
    [name |-> entry.name,
     columns |-> entry.df.columns,
     sample_data |-> SampleData(entry.df)]

\* the alias lookup as it would be with an inverted index built by plain
\* assignment: the last standard field that lists the alias wins
RECURSIVE MappedFieldLast(_, _)
MappedFieldLast(fields, column) ==
    IF fields = <<>> THEN ""
    ELSE IF \E a \in DOMAIN fields[Len(fields)][2] :
                fields[Len(fields)][2][a] = column
         THEN fields[Len(fields)][1]
         ELSE MappedFieldLast(SubSeq(fields, 1, Len(fields) - 1), column)

\* next((key for key, values in standard_fields.items() if column in values), None);
\* None is written "", which `mapped_field if mapped_field else` treats alike
RECURSIVE MappedField(_, _)
MappedField(fields, column) ==
    IF fields = <<>> THEN ""
    ELSE IF \E a \in DOMAIN Head(fields)[2] : Head(fields)[2][a] = column
         THEN Head(fields)[1]
         ELSE MappedField(Tail(fields), column)

\* the rows create_mapping_table appends for one file
MappingEntries(details, fields) ==
    [j \in DOMAIN details.columns |->
        LET mapped_field == MappedField(fields, details.columns[j])
        IN  [Source |-> details.name,
             SourceField |-> details.columns[j],
             StandardField |-> IF mapped_field # "" THEN mapped_field ELSE "Unmapped",
             SampleData |-> IF details.sample_data = <<>> THEN NaN
                            ELSE details.sample_data[j]]]

create_mapping_table(analysis, fields) ==
    Flatten([i \in DOMAIN analysis |-> MappingEntries(analysis[i], fields)])

----------------------------------------------------------------------------
(* data_consolidation.py: the inputs of a run *)

\* the keys of data_files_paths, in dict order
SourceNames == <<"BE.csv", "CH.csv", "CZ.csv", "ES.csv", "NO.csv">>

Sources == 1..NSources

\* identifier cells of the source files: none, "V1", "V-1", "V2"
Ids == {NaN, <<86, 49>>, <<86, 45, 49>>, <<86, 50>>}

\* any other cell of row r, column j of source s: "<s> <r>-<j>"
SampleCell(s, r, j) == <<48 + s, 32, 48 + r, 45, 48 + j>>

\* header rows of the source files; read_csv yields distinct labels
ColumnLists ==
    { <<"Vendor ID", "Name", "Vendor Number">>,
      <<"Vendor ID", "Vendor Number", "vendor_id_1">>,
      <<"Name">> }

\* what the reviewed mapping table says of one column: a standard field, the
\* sentinel, or no row at all
StandardFieldChoices == {"vendor_id", "Unmapped", "NoEntry"}

\* a source's header and, per column, the reviewed mapping
Layouts ==
    UNION {{[columns |-> c, std |-> ch] :
                ch \in [DOMAIN c -> StandardFieldChoices]} : c \in ColumnLists}

\* the layout of the sources whose rows vary
RowLayout ==
    [columns |-> <<"Vendor ID", "VAT Code">>, std |-> <<"vendor_id", "vat_number">>]

\* the rows of the mapping table for source s
MappingRows(s, layout, sample) ==
    LET all == [j \in DOMAIN layout.columns |->
                    [Source |-> SourceNames[s],
                     SourceField |-> layout.columns[j],
                     StandardField |-> layout.std[j],
                     SampleData |-> sample[j]]]
    IN  SelectSeq(all, LAMBDA e : e.StandardField # "NoEntry")

\* source s with the given identifier cells, one row each
SourceFrame(s, layout, ids) ==
    [columns |-> layout.columns,
     index |-> [r \in DOMAIN ids |-> r - 1],
     rows |-> [r \in DOMAIN ids |->
                [j \in DOMAIN layout.columns |->
                    IF j = 1 THEN ids[r] ELSE SampleCell(s, r, j)]]]

IdLists == UNION {[1..n -> Ids] : n \in 0..MaxRows}

\* the state main is in once load_mapping_table and load_data have returned
Loaded(layouts, ids) ==
    /\ data_dict = [s \in Sources |->
                        [name |-> SourceNames[s],
                         df |-> SourceFrame(s, layouts[s], ids[s])]]
    /\ mapping_table =
            Flatten([s \in Sources |->
                MappingRows(s, layouts[s],
                    [j \in DOMAIN layouts[s].columns |->
                        IF ids[s] = <<>> THEN NaN
                        ELSE SourceFrame(s, layouts[s], ids[s]).rows[1][j]])])
    /\ pc = "loop"
    /\ k = 1
    /\ standardised = EmptyFrame
    /\ standardised_data = <<>>
    /\ consolidated = EmptyFrame
    /\ consolidated_cleaned = EmptyFrame
    /\ uncleaned_file = NoFile
    /\ cleaned_file = NoFile
    /\ report_file = NoFile
    /\ duplicate_records = EmptyFrame
    /\ diag = <<(<<"main", "Mapping table contents">>)>>
              \o [s \in Sources |-> <<"main", "Columns in file">>]

\* the other script is not running
MIdle ==
    /\ mpc = "idle"
    /\ standard_fields = <<>>
    /\ raw_frames = <<>>
    /\ f = 1
    /\ cleaned_dataframes = <<>>
    /\ cleaned_files = <<>>
    /\ column_analysis = <<>>
    /\ draft_mapping = <<>>
    /\ mapping_file = <<>>

\* the layouts of the sources after the first: one column, mapped each way
OtherLayouts ==
    {[columns |-> <<"Name">>, std |-> <<c>>] : c \in StandardFieldChoices}

\* the identifier lists of the sources after the first: at most one row
OtherIdLists == UNION {[1..n -> Ids] : n \in 0..1}

\* a first source of every layout next to sources of one column, one row each;
\* or a first source of every list of identifiers next to sources of at most
\* one row, all of one layout
CInit ==
    \/ \E first \in Layouts : \E others \in [Sources \ {1} -> OtherLayouts] :
            Loaded([s \in Sources |-> IF s = 1 THEN first ELSE others[s]],
                   [s \in Sources |-> <<(<<86, 48 + s>>)>>])
    \/ \E first \in IdLists : \E others \in [Sources \ {1} -> OtherIdLists] :
            Loaded([s \in Sources |-> RowLayout],
                   [s \in Sources |-> IF s = 1 THEN first ELSE others[s]])

Init == CInit /\ MIdle

----------------------------------------------------------------------------
(* data_consolidation.py: the steps of main and __main__ *)

\* consolidate_data, line 52
StandardiseData ==
    /\ pc = "loop"
    /\ k <= Len(data_dict)
    /\ standardised' =
            standardise_data(data_dict[k].df, data_dict[k].name, mapping_table)
    /\ diag' = diag \o StandardiseDiag(data_dict[k].df, data_dict[k].name, mapping_table)
    /\ pc' = "unique"
    /\ UNCHANGED <<mapping_table, data_dict, k, standardised_data, consolidated,
                   consolidated_cleaned, uncleaned_file, cleaned_file,
                   report_file, duplicate_records, mvars>>

\* consolidate_data, lines 53-54
EnsureUniqueColumns ==
    /\ pc = "unique"
    /\ standardised' = ensure_unique_columns(standardised)
    /\ standardised_data' = Append(standardised_data, standardised')
    /\ k' = k + 1
    /\ pc' = "loop"
    /\ UNCHANGED <<mapping_table, data_dict, consolidated, consolidated_cleaned,
                   uncleaned_file, cleaned_file, report_file,
                   duplicate_records, diag, mvars>>

\* consolidate_data, lines 55-56; an exception of pd.concat ends the script
ConsolidateData ==
    /\ pc = "loop"
    /\ k > Len(data_dict)
    /\ IF ConcatRaises(standardised_data)
       THEN /\ pc' = "crashed"
            /\ UNCHANGED consolidated
       ELSE /\ pc' = "consolidated"
            /\ consolidated' = Concat(standardised_data)
    /\ UNCHANGED <<mapping_table, data_dict, k, standardised, standardised_data,
                   consolidated_cleaned, uncleaned_file, cleaned_file,
                   report_file, duplicate_records, diag, mvars>>

\* main, lines 107-109
SaveUncleaned ==
    /\ pc = "consolidated"
    /\ uncleaned_file' = to_csv(consolidated)
    /\ diag' = Append(diag, <<"main", "Saved uncleaned consolidated data">>)
    /\ pc' = "saved_uncleaned"
    /\ UNCHANGED <<mapping_table, data_dict, k, standardised, standardised_data,
                   consolidated, consolidated_cleaned, cleaned_file,
                   report_file, duplicate_records, mvars>>

\* main, lines 112-116: clean_columns changes its argument and returns it
CleanColumns ==
    /\ pc = "saved_uncleaned"
    /\ consolidated' = clean_columns(consolidated)
    /\ consolidated_cleaned' = consolidated'
    /\ diag' = diag \o CleanDiag(consolidated)
    /\ pc' = "cleaned"
    /\ UNCHANGED <<mapping_table, data_dict, k, standardised, standardised_data,
                   uncleaned_file, cleaned_file, report_file,
                   duplicate_records, mvars>>

\* main, lines 119-122
DropDuplicates ==
    /\ pc = "cleaned"
    /\ consolidated_cleaned' = DropIfApplicable(consolidated_cleaned)
    /\ pc' = "deduplicated"
    /\ UNCHANGED <<mapping_table, data_dict, k, standardised, standardised_data,
                   consolidated, uncleaned_file, cleaned_file, report_file,
                   duplicate_records, diag, mvars>>

\* __main__, lines 139-140
SaveCleaned ==
    /\ pc = "deduplicated"
    /\ cleaned_file' = to_csv(consolidated_cleaned)
    /\ diag' = Append(diag, <<"__main__", "Saved cleaned consolidated data">>)
    /\ pc' = "saved_cleaned"
    /\ UNCHANGED <<mapping_table, data_dict, k, standardised, standardised_data,
                   consolidated, consolidated_cleaned, uncleaned_file,
                   report_file, duplicate_records, mvars>>

\* the report step as it would be if, without the identifier column, it wrote
\* a report without rows and said so
DuplicatesReportAlwaysWrites ==
    /\ pc = "saved_cleaned"
    /\ LET uncleaned == read_csv(uncleaned_file)
       IN  IF "vendor_id" \in Range(uncleaned.columns)
           THEN \E order \in SortOrders(DuplicateRows(uncleaned)) :
                    /\ duplicate_records' = Take(DuplicateRows(uncleaned), order)
                    /\ report_file' = to_csv(duplicate_records')
                    /\ diag' = diag
                         \o <<(<<"__main__", "Saved duplicate records">>),
                              <<"__main__", "Duplicates Summary",
                                Summary(uncleaned, duplicate_records')>> >>
           ELSE /\ duplicate_records' = Take(uncleaned, <<>>)
                /\ report_file' = to_csv(duplicate_records')
                /\ diag' = Append(diag, <<"__main__", "Saved duplicate records">>)
    /\ pc' = "done"
    /\ UNCHANGED <<mapping_table, data_dict, k, standardised, standardised_data,
                   consolidated, consolidated_cleaned, uncleaned_file,
                   cleaned_file, mvars>>

\* __main__, lines 143-165: both files exist and parse, so nothing is raised
\* inside the try
DuplicatesReport ==
    /\ pc = "saved_cleaned"
    /\ LET uncleaned == read_csv(uncleaned_file)
       IN  IF "vendor_id" \in Range(uncleaned.columns)
           THEN \E order \in SortOrders(DuplicateRows(uncleaned)) :
                    /\ duplicate_records' = Take(DuplicateRows(uncleaned), order)
                    /\ report_file' = to_csv(duplicate_records')
                    /\ diag' = diag
                         \o <<(<<"__main__", "Saved duplicate records">>),
                              <<"__main__", "Duplicates Summary",
                                Summary(uncleaned, duplicate_records')>> >>
           ELSE UNCHANGED <<duplicate_records, report_file, diag>>
    /\ pc' = "done"
    /\ UNCHANGED <<mapping_table, data_dict, k, standardised, standardised_data,
                   consolidated, consolidated_cleaned, uncleaned_file,
                   cleaned_file, mvars>>

Next ==
    \/ StandardiseData
    \/ EnsureUniqueColumns
    \/ ConsolidateData
    \/ SaveUncleaned
    \/ CleanColumns
    \/ DropDuplicates
    \/ SaveCleaned
    \/ DuplicatesReport

Spec == Init /\ [][Next]_vars

----------------------------------------------------------------------------
(* ensure_unique_columns on its own: every column list up to MaxCols *)

ColumnPool == {"vendor_id", "name", "vendor_id_1", "vendor_id_2"}

AnyColumns == UNION {[1..n -> ColumnPool] : n \in 0..MaxCols}

UInit ==
    /\ \E columns \in AnyColumns :
            standardised = [columns |-> columns, index |-> <<0>>,
                            rows |-> <<[j \in DOMAIN columns |-> SampleCell(1, 1, j)]>>]
    /\ pc = "unique"
    /\ k = 1
    /\ mapping_table = <<>>
    /\ data_dict = <<>>
    /\ standardised_data = <<>>
    /\ consolidated = EmptyFrame
    /\ consolidated_cleaned = EmptyFrame
    /\ uncleaned_file = NoFile
    /\ cleaned_file = NoFile
    /\ report_file = NoFile
    /\ duplicate_records = EmptyFrame
    /\ diag = <<>>
    /\ MIdle

SpecUnique == UInit /\ [][EnsureUniqueColumns]_vars

----------------------------------------------------------------------------
(* Properties of data_consolidation.py *)

\* the mapping entry of column `column` of source s, if the table has one
EntriesFor(s, column) ==
    {i \in DOMAIN mapping_table :
        /\ mapping_table[i].Source = SourceNames[s]
        /\ mapping_table[i].SourceField = column}

\* C1: when standardise_data has returned for a source, every column whose
\* mapping entry for that source is "Unmapped" still has its original name,
\* and no column has been renamed to the sentinel "Unmapped".
C1_UnmappedKeptVerbatim ==
    pc = "unique" =>
        \A i \in DOMAIN data_dict[k].df.columns :
            LET original == data_dict[k].df.columns[i]
            IN  /\ (\E e \in EntriesFor(k, original) :
                        mapping_table[e].StandardField = "Unmapped")
                    => standardised.columns[i] = original
                /\ standardised.columns[i] = "Unmapped" => original = "Unmapped"

\* C2: ensure_unique_columns renames the column at zero-based position i from
\* n to "n_i" exactly when n occurs at another position too, leaves every
\* other column as it is, and keeps the number and order of the columns and
\* the rows.
C2_SuffixExactlyRepeated ==
    [][(pc = "unique" /\ pc' = "loop") =>
        /\ Len(standardised'.columns) = Len(standardised.columns)
        /\ standardised'.rows = standardised.rows
        /\ \A i \in DOMAIN standardised.columns :
            LET n == standardised.columns[i]
                repeated == \E j \in DOMAIN standardised.columns :
                                j # i /\ standardised.columns[j] = n
            IN  standardised'.columns[i] =
                    IF repeated THEN n \o "_" \o ToString(i - 1) ELSE n]_vars

\* C2 witness: [vendor_id, name, vendor_id] has become [vendor_id_0, name, vendor_id_2]
C2_Witness ==
    /\ pc = "loop"
    /\ standardised.columns = <<"vendor_id_0", "name", "vendor_id_2">>

\* C3: when the cleaned dataset has a vendor_id column, deduplication removes
\* exactly the rows whose identifier is present and equals the identifier of
\* an earlier row; rows without an identifier are all kept.
C3_KeepFirstKeepsAbsent ==
    (pc = "deduplicated" /\ "vendor_id" \in Range(consolidated.columns)) =>
        LET ids == Column(consolidated, "vendor_id")
            kept == SelectSeq([r \in DOMAIN ids |-> r],
                        LAMBDA r : ~(ids[r] # NaN
                                     /\ \E q \in 1..(r - 1) : ids[q] = ids[r]))
        IN  consolidated_cleaned = Take(consolidated, kept)

\* the uncleaned dataset as the report step reads it
Uncleaned == read_csv(uncleaned_file)

\* C4: when the uncleaned dataset has a vendor_id column, the report holds
\* exactly the rows whose identifier value is on two or more rows, each once,
\* ordered by identifier value.
C4_ReportExactlyShared ==
    (pc = "done" /\ "vendor_id" \in Range(Uncleaned.columns)) =>
        LET ids == Column(Uncleaned, "vendor_id")
            shared == {r \in DOMAIN ids :
                        /\ ids[r] # NaN
                        /\ \E q \in DOMAIN ids : q # r /\ ids[q] = ids[r]}
            got == Column(duplicate_records, "vendor_id")
        IN  /\ Range(duplicate_records.index) = {r - 1 : r \in shared}
            /\ Len(duplicate_records.index) = Cardinality(shared)
            /\ \A i \in DOMAIN duplicate_records.index :
                    duplicate_records.rows[i] =
                        Uncleaned.rows[duplicate_records.index[i] + 1]
            /\ \A a, b \in DOMAIN got : a < b => ~TextLess(got[b], got[a])
            /\ report_file = to_csv(duplicate_records)

\* rows of the sources before source s
RECURSIVE RowsBefore(_)
RowsBefore(s) ==
    IF s = 1 THEN 0 ELSE RowsBefore(s - 1) + Len(standardised_data[s - 1].rows)

\* what C5 says of the table consolidate_data returns
ConsolidatedAsClaimed ==
    /\ Len(consolidated.rows) = RowsBefore(Len(standardised_data) + 1)
    /\ Range(consolidated.columns) =
            UNION {Range(standardised_data[s].columns) : s \in DOMAIN standardised_data}
    /\ \A s \in DOMAIN standardised_data :
        \A r \in DOMAIN standardised_data[s].rows :
            LET src == standardised_data[s]
                row == consolidated.rows[RowsBefore(s) + r]
            IN  /\ \A j \in DOMAIN src.columns :
                        \E p \in DOMAIN consolidated.columns :
                            /\ consolidated.columns[p] = src.columns[j]
                            /\ row[p] = src.rows[r][j]
                /\ \A p \in DOMAIN consolidated.columns :
                        consolidated.columns[p] \notin Range(src.columns)
                            => row[p] = NaN

\* C5: consolidate_data returns, for every sequence of sources, a table with
\* all the rows of the sources, in source order and then row order, over the
\* union of the sources' columns, with a missing cell where a source lacks the
\* column.
C5_ConcatKeepsEveryRow ==
    /\ pc # "crashed"
    /\ pc = "consolidated" => ConsolidatedAsClaimed

\* what the report step has printed: all that follows the line on the cleaned file
ReportDiag ==
    LET at == CHOOSE i \in DOMAIN diag :
                diag[i] = <<"__main__", "Saved cleaned consolidated data">>
    IN  SubSeq(diag, at + 1, Len(diag))

ReportSkipped ==
    /\ pc = "done"
    /\ "vendor_id" \notin Range(Uncleaned.columns)

\* C6 as claimed: without a vendor_id column in the uncleaned dataset the
\* report step writes no report, emits a diagnostic, and leaves the two
\* consolidated outputs as they were written.
C6_SkipWithDiagnostic ==
    ReportSkipped =>
        /\ report_file = NoFile
        /\ ReportDiag # <<>>
        /\ uncleaned_file = to_csv(Concat(standardised_data))
        /\ cleaned_file = to_csv(consolidated_cleaned)

\* C6 as amended: without a vendor_id column in the uncleaned dataset the
\* report step is always able to finish, writes no report, prints nothing at
\* all, and leaves the two consolidated outputs as they were written.
C6_SkipSilently ==
    /\ (pc = "saved_cleaned" /\ "vendor_id" \notin Range(Uncleaned.columns))
            => ENABLED DuplicatesReport
    /\ ReportSkipped =>
        /\ report_file = NoFile
        /\ ReportDiag = <<>>
        /\ uncleaned_file = to_csv(Concat(standardised_data))
        /\ cleaned_file = to_csv(consolidated_cleaned)

\* C6 witness: a run over sources with rows and no vendor_id column has finished
C6_Witness ==
    /\ ReportSkipped
    /\ "Name" \in Range(uncleaned_file.columns)
    /\ Len(uncleaned_file.rows) = NSources
    /\ cleaned_file.exists

\* C9: every dataset that consolidate_data hands to pd.concat has pairwise
\* distinct column names.
C9_DistinctColumnNames ==
    \A s \in DOMAIN standardised_data : IsUnique(standardised_data[s].columns)

\* C10: every row that deduplication removed from the cleaned dataset is a row
\* of the duplicates report.
C10_RemovedRowsReported ==
    (pc = "done" /\ "vendor_id" \in Range(Uncleaned.columns)) =>
        (Range(consolidated.index) \ Range(consolidated_cleaned.index))
            \subseteq Range(duplicate_records.index)

----------------------------------------------------------------------------
(* field_mapping_with_manual_review.py: the inputs and the steps of __main__ *)

\* standard_fields of __main__, in dict order
StandardFields ==
    << <<"vendor_id", <<"Vendor ID", "Vendor Number", "Vendor identifier", "Vendor ID Number">>>>,
       <<"vendor_name", <<"Vendor name", "Name", "Vendor Name", "Description">>>>,
       <<"address", <<"Address", "Company Address">>>>,
       <<"postal_code", <<"ZIP/postcode", "ZIP", "Postcode">>>>,
       <<"city", <<"City">>>>,
       <<"country", <<"Country">>>>,
       <<"email", <<"Email", "Email for Contact">>>>,
       <<"vat_number", <<"VAT Code", "VAT-No">>>>,
       <<"currency", <<"Currency", "Currency code">>>>,
       <<"iban", <<"IBAN">>>>,
       <<"bic", <<"BIC">>>>,
       <<"bank_name", <<"Bank Name", "Bank name">>>>,
       <<"bank_country", <<"Bank country", "Bank Country">>>>,
       <<"company_entities", <<"Company entities">>>>,
       <<"group", <<"Vendor Group", "Groups", "Group">>>>,
       <<"payment_terms", <<"Payment terms">>>>,
       <<"bank_account_number", <<"Bank Account Number">>>>,
       <<"bank_code", <<"Bank Code">>>>,
       <<"norwegian_bankgiro_number", <<"Norwegian Bankgiro Number">>>>,
       <<"owner", <<"Owner">>>> >>

\* an enumeration in which one alias is listed under two standard fields
OverlappingFields ==
    << <<"vendor_id", <<"Vendor ID", "Name">>>>,
       <<"vendor_name", <<"Name", "Vendor Name">>>>,
       <<"owner", <<"Owner">>>> >>

FieldEnumerations == {StandardFields, OverlappingFields}

\* how many raw files the folder holds when the headers vary
NFiles == 2

\* header rows of the raw files; read_csv yields distinct labels
RawColumnLists ==
    { <<"Vendor ID", "Name">>,
      <<"vendor id", "Vendor Name", "Owner2">>,
      <<"Name", "IBAN", "Bank name">>,
      <<"Unmapped">> }

\* cells of the two columns of a raw file whose rows vary: none, "A", "B" and
\* none, "1", "2", "3"
Col1Cells == {NaN, <<65>>, <<66>>}
Col2Cells == {NaN, <<49>>, <<50>>, <<51>>}

RawRows == {<<a, b>> : a \in Col1Cells, b \in Col2Cells}

RawRowLists == UNION {[1..n -> RawRows] : n \in 0..MaxRawRows}

\* what pd.read_csv(raw_path, header=header_row, dtype=str) returns
RawFrame(columns, rows) ==
    [columns |-> columns, index |-> [r \in DOMAIN rows |-> r - 1], rows |-> rows]

\* the other script is not running
CIdle ==
    /\ mapping_table = <<>>
    /\ data_dict = <<>>
    /\ pc = "idle"
    /\ k = 1
    /\ standardised = EmptyFrame
    /\ standardised_data = <<>>
    /\ consolidated = EmptyFrame
    /\ consolidated_cleaned = EmptyFrame
    /\ uncleaned_file = NoFile
    /\ cleaned_file = NoFile
    /\ report_file = NoFile
    /\ duplicate_records = EmptyFrame
    /\ diag = <<>>

\* the state __main__ is in before the loop over the raw files
Listed(fields, frames) ==
    /\ standard_fields = fields
    /\ raw_frames = [i \in DOMAIN frames |-> [name |-> SourceNames[i], df |-> frames[i]]]
    /\ mpc = "cleaning"
    /\ f = 1
    /\ cleaned_dataframes = <<>>
    /\ cleaned_files = <<>>
    /\ column_analysis = <<>>
    /\ draft_mapping = <<>>
    /\ mapping_file = <<>>

\* files of every header with at most one row, under every enumeration, or
\* one file of two columns with every list of rows
MInit ==
    \/ \E fields \in FieldEnumerations :
       \E columns \in [1..NFiles -> RawColumnLists] :
       \E n \in [1..NFiles -> 0..1] :
            Listed(fields,
                [i \in 1..NFiles |->
                    RawFrame(columns[i],
                        [r \in 1..n[i] |->
                            [j \in DOMAIN columns[i] |-> SampleCell(i, r, j)]])])
    \/ \E rows \in RawRowLists :
            Listed(StandardFields, <<RawFrame(<<"col1", "col2">>, rows)>>)

\* __main__, lines 118-125, for the file at position f
CleanFile ==
    /\ mpc = "cleaning"
    /\ f <= Len(raw_frames)
    /\ cleaned_dataframes' =
            Append(cleaned_dataframes,
                [name |-> raw_frames[f].name, df |-> clean_csv(raw_frames[f].df)])
    /\ cleaned_files' = Append(cleaned_files, to_csv(clean_csv(raw_frames[f].df)))
    /\ f' = f + 1
    /\ UNCHANGED <<mpc, standard_fields, raw_frames, column_analysis,
                   draft_mapping, mapping_file, cvars>>

\* __main__, line 128
AnalyseCleanedData ==
    /\ mpc = "cleaning"
    /\ f > Len(raw_frames)
    /\ column_analysis' =
            [i \in DOMAIN cleaned_dataframes |-> Analysis(cleaned_dataframes[i])]
    /\ mpc' = "analysed"
    /\ UNCHANGED <<standard_fields, raw_frames, f, cleaned_dataframes,
                   cleaned_files, draft_mapping, mapping_file, cvars>>

\* __main__, line 131
CreateMappingTable ==
    /\ mpc = "analysed"
    /\ draft_mapping' = create_mapping_table(column_analysis, standard_fields)
    /\ mpc' = "mapped"
    /\ UNCHANGED <<standard_fields, raw_frames, f, cleaned_dataframes,
                   cleaned_files, column_analysis, mapping_file, cvars>>

\* __main__, lines 132-134
SaveMappingTable ==
    /\ mpc = "mapped"
    /\ mapping_file' =
            [i \in DOMAIN draft_mapping |->
                [draft_mapping[i] EXCEPT !.SampleData = CsvField(@)]]
    /\ mpc' = "review"
    /\ UNCHANGED <<standard_fields, raw_frames, f, cleaned_dataframes,
                   cleaned_files, column_analysis, draft_mapping, cvars>>

MNext ==
    \/ CleanFile
    \/ AnalyseCleanedData
    \/ CreateMappingTable
    \/ SaveMappingTable

MapInit == MInit /\ CIdle

SpecMapping == MapInit /\ [][MNext]_vars

----------------------------------------------------------------------------
(* Properties of field_mapping_with_manual_review.py *)

\* the positions of the rows of raw that are not empty throughout
NonEmptyRows(raw) == {r \in DOMAIN raw.rows : ~AllNaN(raw.rows[r])}

\* the cell of column j that row r shows after the fill: its own, or that of
\* the nearest non-empty row above with a value in the column
FilledCell(raw, r, j) ==
    LET above == {q \in NonEmptyRows(raw) : q <= r /\ raw.rows[q][j] # NaN}
    IN  IF above = {} THEN NaN
        ELSE raw.rows[CHOOSE q \in above : \A q2 \in above : q2 <= q][j]

FilledRow(raw, r) == [j \in DOMAIN raw.columns |-> FilledCell(raw, r, j)]

\* the positions of the rows that survive: not empty, and not equal, once
\* filled, to an earlier surviving row
SurvivingRows(raw) ==
    {r \in NonEmptyRows(raw) :
        \A q \in NonEmptyRows(raw) : q < r => FilledRow(raw, q) # FilledRow(raw, r)}

CleanedAsClaimed(raw, cleaned) ==
    /\ cleaned.columns = raw.columns
    \* exactly the surviving rows, in their order, filled
    /\ Range(cleaned.index) = {r - 1 : r \in SurvivingRows(raw)}
    /\ \A a, b \in DOMAIN cleaned.index : a < b => cleaned.index[a] < cleaned.index[b]
    /\ \A a \in DOMAIN cleaned.index :
            cleaned.rows[a] = FilledRow(raw, cleaned.index[a] + 1)
    \* an empty cell only under empty cells
    /\ \A a, b \in DOMAIN cleaned.rows : \A j \in DOMAIN cleaned.columns :
            (b < a /\ cleaned.rows[a][j] = NaN) => cleaned.rows[b][j] = NaN
    \* no empty row, no two equal rows
    /\ \A a \in DOMAIN cleaned.rows : ~AllNaN(cleaned.rows[a])
    /\ \A a, b \in DOMAIN cleaned.rows : cleaned.rows[a] = cleaned.rows[b] => a = b

\* C7: clean_csv removes the rows that are empty throughout, fills every other
\* empty cell from the nearest non-empty cell above it in its column, and then
\* removes the rows equal to an earlier row; the result has an empty cell only
\* where every cell above it is empty, no empty row and no two equal rows.
C7_CleanCsv ==
    \A i \in DOMAIN cleaned_dataframes :
        CleanedAsClaimed(raw_frames[i].df, cleaned_dataframes[i].df)

\* C7 witness: [[A,1],[,2],[,3]] has been cleaned to [[A,1],[A,2],[A,3]]
C7_Witness ==
    /\ Len(cleaned_dataframes) = 1
    /\ raw_frames[1].df.rows =
            << <<(<<65>>), <<49>>>>, <<NaN, <<50>>>>, <<NaN, <<51>>>> >>
    /\ cleaned_dataframes[1].df.rows =
            << <<(<<65>>), <<49>>>>, <<(<<65>>), <<50>>>>, <<(<<65>>), <<51>>>> >>

\* the number of mapping entries of the files before file i
RECURSIVE EntriesBefore(_)
EntriesBefore(i) ==
    IF i = 1 THEN 0
    ELSE EntriesBefore(i - 1) + Len(cleaned_dataframes[i - 1].df.columns)

Keys(fields) == {fields[q][1] : q \in DOMAIN fields}

Lists(fields, q, column) == column \in Range(fields[q][2])

\* C8: create_mapping_table emits one entry per (source, column) pair, in
\* source order and then column order; its Standard Field is the first
\* standard field of the enumeration whose aliases hold the column name
\* exactly, and "Unmapped" when none does; so no two entries share a (Source,
\* Source Field) pair and every Standard Field is "Unmapped" or a key.
C8_DraftMapping ==
    mpc \in {"mapped", "review"} =>
        /\ Len(draft_mapping) = EntriesBefore(Len(cleaned_dataframes) + 1)
        /\ \A i \in DOMAIN cleaned_dataframes :
            \A j \in DOMAIN cleaned_dataframes[i].df.columns :
                LET e == draft_mapping[EntriesBefore(i) + j]
                    column == cleaned_dataframes[i].df.columns[j]
                    hits == {q \in DOMAIN standard_fields :
                                Lists(standard_fields, q, column)}
                IN  /\ e.Source = cleaned_dataframes[i].name
                    /\ e.SourceField = column
                    /\ hits = {} => e.StandardField = "Unmapped"
                    /\ hits # {} =>
                        \E q \in hits :
                            /\ \A q2 \in hits : q <= q2
                            /\ e.StandardField = standard_fields[q][1]
        /\ \A a, b \in DOMAIN draft_mapping :
                (/\ draft_mapping[a].Source = draft_mapping[b].Source
                 /\ draft_mapping[a].SourceField = draft_mapping[b].SourceField)
                    => a = b
        /\ \A a \in DOMAIN draft_mapping :
                draft_mapping[a].StandardField \in Keys(standard_fields) \cup {"Unmapped"}

\* C8 witness: a column listed under two standard fields got the first, next
\* to a column of another case that stayed unmapped
C8_Witness ==
    /\ mpc = "mapped"
    /\ standard_fields = OverlappingFields
    /\ \E a, b \in DOMAIN draft_mapping :
        /\ draft_mapping[a].SourceField = "Name"
        /\ draft_mapping[a].StandardField = "vendor_id"
        /\ draft_mapping[b].SourceField = "vendor id"
        /\ draft_mapping[b].StandardField = "Unmapped"

====
